---- MODULE Spec2Model ----
(***************************************************************************)
(* Dubai Schools Intelligence: the Streamlit script app.py (one run of the *)
(* script per user interaction), the routing-service client of             *)
(* map_utils.py and the chat agent of rag_engine.py.                       *)
(*                                                                         *)
(* Coordinates are integers on a local kilometre grid: a point is          *)
(* <<lat, lon>> (app.py) or <<lon, lat>> (shapely, GeoJSON).  A nullable   *)
(* value is a sequence: <<>> is None / NaN, <<v>> holds v.                 *)
(***************************************************************************)
EXTENDS Integers, Sequences, FiniteSets, TLC

VARIABLES
    \* the deployment: fixed for the life of the process
    secrets,                \* st.secrets
    environ,                \* os.environ after load_dotenv()
    geopy_strict,           \* geopy >= 2.0: Point() rejects a non-finite coordinate
    master_xlsx,            \* which school spreadsheet load_data() reads
    shapely_v2,             \* shapely >= 2.0: the x of POINT EMPTY is nan
    zones_geom,             \* the geom column of the zone spreadsheet
    \* the session
    selected_zone_name,     \* app.py:56
    manual_address,         \* app.py:59
    selected_drive_times,   \* app.py:61, in the order the tiers were picked
    cache,                  \* st.cache_data store of fetch_isochrones
    agent,                  \* st.session_state.agent
    messages,               \* st.session_state.messages
    reruns,                 \* script runs so far in this session
    \* what the latest script run computed
    location,               \* the geocoder's reply (app.py:80)
    home_coords,            \* app.py:63-85
    fetch,                  \* the fetch_isochrones call of app.py:143
    replies,                \* the routing service's reply to each tier's request
    isochrone_polygons,     \* app.py:140-143
    filtered_df,            \* app.py:152-167, as row numbers of df
    chat,                   \* the agent.ask call of app.py:220
    zone_layer,             \* the zone layer create_school_map draws
    geom_calls,             \* parse_geom and get_centroid called on every zone
    script                  \* how the run ended: "ok" or the exception raised

vars == <<secrets, environ, geopy_strict, master_xlsx, selected_zone_name,
          manual_address, selected_drive_times, cache, agent, messages, reruns,
          location, home_coords, fetch, replies, isochrone_polygons,
          filtered_df, chat, script, shapely_v2, zones_geom, zone_layer,
          geom_calls>>

deployment == <<secrets, environ, geopy_strict, master_xlsx, shapely_v2, zones_geom>>

-----------------------------------------------------------------------------
(* Bounds of the model *)

MaxReruns == 3          \* user interactions explored in one session
NumSchools == 22        \* rows of the school spreadsheet
MaxRingLen == 3         \* points in a shell or hole the routing service sends

(* Program constants *)

HeadLimit == 20         \* filtered_df.head(20)
NullSentinel == 999     \* est_drive_time of a row without Latitude
PaceFactor == 2         \* "1km = 2 mins"

None == <<>>
Abs(x) == IF x < 0 THEN 0 - x ELSE x
Min(a, b) == IF a <= b THEN a ELSE b
Range(s) == {s[i] : i \in DOMAIN s}

-----------------------------------------------------------------------------
(* The spreadsheets *)

Meridian == 50          \* the grid column all modelled places lie on
BaseLat == 10           \* grid row of the first school and of zone Z1's centre
FarLat == 200           \* grid row of a place far from every school

LatNullRows == {4, 9}   \* rows whose Latitude cell does not parse
LonNullRows == {6, 9}   \* rows whose Longitude cell does not parse

Curricula == <<"UK", "IB", "Indian">>

\* load_data(): pd.to_numeric(..., errors='coerce') turns a bad cell into NaN
SchoolRow(i, sheet) ==
    [name           |-> i,
     curriculum     |-> Curricula[(i % Len(Curricula)) + 1],
     overall_rating |-> IF i % 2 = 0 THEN "Good" ELSE "Outstanding",
     location       |-> "Dubai",
     fees           |-> i * 1000,
     Latitude       |-> IF sheet = "nulls" /\ i \in LatNullRows
                        THEN None ELSE <<BaseLat + (i - 1)>>,
     Longitude      |-> IF sheet = "nulls" /\ i \in LonNullRows
                        THEN None ELSE <<Meridian>>]

Sheets == {"clean", "nulls"}

load_data(sheet) == [i \in 1..NumSchools |-> SchoolRow(i, sheet)]

df == load_data(master_xlsx)

\* df.iloc[i - 1]
Row(i) == SchoolRow(i, master_xlsx)

\* WKT text of the zone sheet's geom column, by what shapely makes of it
ZonePolygon ==
    [kind |-> "Polygon",
     exterior |-> << <<Meridian - 2, BaseLat - 2>>, <<Meridian + 2, BaseLat - 2>>,
                     <<Meridian + 2, BaseLat + 2>>, <<Meridian - 2, BaseLat + 2>>,
                     <<Meridian - 2, BaseLat - 2>> >>]
GarbageWkt == [kind |-> "unparseable", exterior |-> <<>>]

df_zones == << [Community |-> "Z1", geom |-> ZonePolygon],
               [Community |-> "Zbad", geom |-> GarbageWkt] >>

\* df_zones['geom']
DfZonesGeom == [i \in DOMAIN df_zones |-> df_zones[i].geom]

zone_names == <<"None">> \o [i \in DOMAIN df_zones |-> df_zones[i].Community]

-----------------------------------------------------------------------------
(* map_utils.get_centroid *)

RECURSIVE SumOver(_, _, _)
SumOver(F(_), i, n) == IF i > n THEN 0 ELSE F(i) + SumOver(F, i + 1, n)

\* shapely's load_wkt: the geometry, or an exception (NaN is no text)
load_wkt(wkt) ==
    [raised |-> wkt.kind \in {"unparseable", "missing"}, geom |-> wkt]

\* shapely's polygon centroid (area-weighted, shoelace formula), as <<x, y>>
PolygonCentroid(ring) ==
    LET n == Len(ring) - 1
        Cross(i) == ring[i][1] * ring[i + 1][2] - ring[i + 1][1] * ring[i][2]
        A2 == SumOver(Cross, 1, n)
        Mx(i) == (ring[i][1] + ring[i + 1][1]) * Cross(i)
        My(i) == (ring[i][2] + ring[i + 1][2]) * Cross(i)
    IN  << SumOver(Mx, 1, n) \div (3 * A2), SumOver(My, 1, n) \div (3 * A2) >>

\* [poly.centroid.x, poly.centroid.y].  The centroid of an empty geometry is
\* POINT EMPTY: its x is nan in shapely >= 2.0 (<<None, None>> here) and an
\* IndexError before that.
CentroidXY(geom) ==
    IF geom.exterior = <<>>
    THEN IF shapely_v2 THEN [raised |-> FALSE, value |-> <<None, None>>]
                       ELSE [raised |-> TRUE, value |-> None]
    ELSE IF geom.kind = "Point"
    THEN [raised |-> FALSE, value |-> <<geom.exterior[1][1], geom.exterior[1][2]>>]
    ELSE [raised |-> FALSE, value |-> PolygonCentroid(geom.exterior)]

\* MUTANT: the exception is not caught
CatchNothing(r) == r

\* "try: ... except: return None" around a body that returned r.value or raised
Catch(r) == IF r.raised THEN [raised |-> FALSE, value |-> None] ELSE r

\* get_centroid: whether the call raised, and <<lon, lat>> or None
get_centroid_call(wkt) ==
    Catch(LET poly == load_wkt(wkt)
          IN  IF poly.raised THEN [raised |-> TRUE, value |-> None]
              ELSE CentroidXY(poly.geom))

get_centroid(wkt) == get_centroid_call(wkt).value

\* parse_geom: whether the call raised, and <<the list of [lon, lat]>> or None.
\* A geometry that is not a Polygon falls off the end of the try block.
parse_geom(wkt) ==
    Catch(IF wkt.kind = "missing" THEN [raised |-> FALSE, value |-> None]
          ELSE LET poly == load_wkt(wkt)
               IN  IF poly.raised THEN [raised |-> TRUE, value |-> None]
                   ELSE IF poly.geom.kind = "Polygon"
                   THEN [raised |-> FALSE,
                         value |-> << [k \in DOMAIN poly.geom.exterior |->
                                         <<poly.geom.exterior[k][1],
                                           poly.geom.exterior[k][2]>>] >>]
                   ELSE [raised |-> FALSE, value |-> None])

\* create_school_map, lines 36-53: the rows of the zone layer, after
\* df_zones.dropna(subset=['coordinates']); no layer for an empty sheet
NoLayer == [status |-> "no layer", rows |-> <<>>]
ZoneLayer(geoms) ==
    IF geoms = <<>> THEN NoLayer
    ELSE IF \E i \in DOMAIN geoms : parse_geom(geoms[i]).raised
    THEN [status |-> "raised", rows |-> <<>>]
    ELSE LET kept == SelectSeq([i \in DOMAIN geoms |-> i],
                               LAMBDA i : parse_geom(geoms[i]).value # None)
         IN  [status |-> "drawn",
              rows |-> [k \in DOMAIN kept |->
                          [zone |-> kept[k],
                           coordinates |-> parse_geom(geoms[kept[k]]).value[1]]]]

-----------------------------------------------------------------------------
(* app.py:63-85: the home coordinate of one script run *)

NotCalled == [kind |-> "not called"]
GeocodeReplies ==
    { [kind |-> "raise"], [kind |-> "none"],
      [kind |-> "location", latitude |-> FarLat, longitude |-> Meridian] }

ZoneMatch(name) == SelectSeq(df_zones, LAMBDA z : z.Community = name)

\* MUTANT: the manual address is looked at before the zone
HomeCoordsAddressFirst(zone, address, geo) ==
    IF address # ""
    THEN [location |-> geo,
          home |-> IF geo.kind = "location"
                   THEN <<geo.latitude, geo.longitude>> ELSE None]
    ELSE IF zone # "None" /\ ZoneMatch(zone) # <<>>
              /\ get_centroid(ZoneMatch(zone)[1].geom) # None
    THEN [location |-> NotCalled,
          home |-> LET raw == get_centroid(ZoneMatch(zone)[1].geom)
                   IN  <<raw[2], raw[1]>>]
    ELSE [location |-> NotCalled, home |-> None]

\* geo is the reply the geocoder gives if it is asked
HomeCoords(zone, address, geo) ==
    IF zone # "None"
    THEN LET zone_match == ZoneMatch(zone)
             home_coords_raw == get_centroid(zone_match[1].geom)
         IN  [location |-> NotCalled,
              home |-> IF zone_match # <<>> /\ home_coords_raw # None
                       THEN <<home_coords_raw[2], home_coords_raw[1]>>
                       ELSE None]
    ELSE IF address # ""
    THEN [location |-> geo,
          home |-> IF geo.kind = "location"
                   THEN <<geo.latitude, geo.longitude>> ELSE None]
    ELSE [location |-> NotCalled, home |-> None]

-----------------------------------------------------------------------------
(* map_utils.get_isochrone: one request to the routing service *)

\* A credential is "" when the store has no such entry (or an empty one).
\* st.secrets.get raises when there is no secrets file: both stay None.
app_id ==
    LET s == IF secrets.readable THEN secrets.TRAVELTIME_APP_ID ELSE ""
    IN  IF s = "" THEN environ.TRAVELTIME_APP_ID ELSE s

api_key ==
    LET s == IF secrets.readable THEN secrets.TRAVELTIME_API_KEY ELSE ""
    IN  IF s = "" THEN environ.TRAVELTIME_API_KEY ELSE s

CredentialsMissing == app_id = "" \/ api_key = ""

StatusOk == 200

\* MUTANT: the request is sent before the keys are looked at
get_isochrone_no_key_check(minutes, reply) ==
    IF reply.kind = "exception"
    THEN [iso_data |-> None, requested |-> TRUE,
          errors |-> << [kind |-> "exception", minutes |-> minutes] >>]
    ELSE IF reply.status_code = StatusOk
    THEN [iso_data |-> <<reply.json>>, requested |-> TRUE, errors |-> <<>>]
    ELSE [iso_data |-> None, requested |-> TRUE,
          errors |-> << [kind |-> "api error", minutes |-> minutes] >>]

\* reply is what the service answers if the request is sent.  The result is
\* iso_data (None, or <<the JSON body>>), whether a request went out, and the
\* st.error banners shown.
get_isochrone(minutes, reply) ==
    IF CredentialsMissing
    THEN [iso_data |-> None, requested |-> FALSE,
          errors |-> << [kind |-> "not configured", minutes |-> minutes] >>]
    ELSE IF reply.kind = "exception"
    THEN [iso_data |-> None, requested |-> TRUE,
          errors |-> << [kind |-> "exception", minutes |-> minutes] >>]
    ELSE IF reply.status_code = StatusOk
    THEN [iso_data |-> <<reply.json>>, requested |-> TRUE, errors |-> <<>>]
    ELSE [iso_data |-> None, requested |-> TRUE,
          errors |-> << [kind |-> "api error", minutes |-> minutes] >>]

-----------------------------------------------------------------------------
(* app.py:88-138: fetch_isochrones *)

colors == << <<0, 255, 128>>, <<255, 255, 0>>, <<255, 128, 0>> >>

Max(S) == CHOOSE m \in S : \A x \in S : x <= m
FirstIndexOf(s, v) == CHOOSE i \in DOMAIN s : s[i] = v /\ \A j \in 1..(i - 1) : s[j] # v
RemoveAt(s, i) == SubSeq(s, 1, i - 1) \o SubSeq(s, i + 1, Len(s))

\* sorted(drive_times, reverse=True)
RECURSIVE SortedDesc(_)
SortedDesc(s) ==
    IF s = <<>> THEN <<>>
    ELSE LET m == Max(Range(s))
         IN  <<m>> \o SortedDesc(RemoveAt(s, FirstIndexOf(s, m)))

\* [[pt['lng'], pt['lat']] for pt in points]
LngLat(points) == [k \in DOMAIN points |-> <<points[k].lng, points[k].lat>>]

\* MUTANT: the ring is left as the service sent it
CloseRingNever(ring) == ring

\* "if shell[0] != shell[-1]: shell.append(shell[0])", for a ring with a point
CloseRing(ring) ==
    IF ring[1] # ring[Len(ring)] THEN Append(ring, ring[1]) ELSE ring

\* One shape of the response as [shell] + holes.  shell[0] and h[0] raise
\* IndexError on an empty point list.
ShapeRaises(shape) ==
    shape.shell = <<>> \/ \E k \in DOMAIN shape.holes : shape.holes[k] = <<>>

ShapeRings(shape) ==
    <<CloseRing(LngLat(shape.shell))>>
        \o [k \in DOMAIN shape.holes |-> CloseRing(LngLat(shape.holes[k]))]

\* MUTANT: the palette is indexed by the number of polygons built so far
ColorIndexByOutput(i, built) == built % Len(colors)

\* colors[i % len(colors)], i the enumerate() index of the tier
ColorIndex(i, built) == i % Len(colors)

Feature(dt, c, geojson_shapes) ==
    [type |-> "Feature",
     geometry |-> [type |-> "MultiPolygon", coordinates |-> geojson_shapes],
     properties |-> [drive_time |-> dt, fill_color_r |-> c[1],
                     fill_color_g |-> c[2], fill_color_b |-> c[3]]]

\* "iso_data and 'results' in iso_data and len(iso_data['results']) > 0"
HasResults(iso_data) ==
    /\ iso_data # None
    /\ iso_data[1].keys # {}
    /\ "results" \in iso_data[1].keys
    /\ Len(iso_data[1].results) > 0

\* MUTANT: only the key is looked for, not the number of shapes
HasShapesKeyOnly(result) == "shapes" \in result.keys

\* "'shapes' in result and len(result['shapes']) > 0"
HasShapes(result) == "shapes" \in result.keys /\ Len(result.shapes) > 0

\* The loop body for the tiers sorted[i+1..], i the enumerate() index.
\* acc: status ("ok" or the exception), value (all_isochrones), requests (sent
\* so far), errors (st.error banners so far).
RECURSIVE FetchLoop(_, _, _, _)
FetchLoop(sorted, rs, i, acc) ==
    IF i >= Len(sorted) THEN acc
    ELSE
    LET dt == sorted[i + 1]
        got == get_isochrone(dt, rs[i + 1])
        sent == acc.requests + (IF got.requested THEN 1 ELSE 0)
        failed(kind) ==
            [acc EXCEPT !.requests = sent,
                        !.errors = acc.errors \o got.errors
                                     \o << [kind |-> kind, minutes |-> dt] >>]
    IN  IF HasResults(got.iso_data)
        THEN LET result == got.iso_data[1].results[1]
             IN  IF HasShapes(result)
                 THEN IF \E k \in DOMAIN result.shapes : ShapeRaises(result.shapes[k])
                      THEN [acc EXCEPT !.status = "IndexError", !.value = <<>>,
                                       !.requests = sent,
                                       !.errors = acc.errors \o got.errors]
                      ELSE LET c == colors[ColorIndex(i, Len(acc.value)) + 1]
                               geojson_shapes ==
                                   [k \in DOMAIN result.shapes |->
                                        ShapeRings(result.shapes[k])]
                           IN  FetchLoop(sorted, rs, i + 1,
                                   [acc EXCEPT
                                       !.value = Append(acc.value,
                                                   Feature(dt, c, geojson_shapes)),
                                       !.requests = sent,
                                       !.errors = acc.errors \o got.errors])
                 ELSE FetchLoop(sorted, rs, i + 1, failed("no shapes"))
        ELSE FetchLoop(sorted, rs, i + 1, failed("failed to fetch"))

\* rs[k] is the service's reply to the request for the k-th tier in descending
\* order, if that request is sent
fetch_isochrones(lat, lon, drive_times, rs) ==
    FetchLoop(SortedDesc(drive_times), rs, 0,
              [status |-> "ok", value |-> <<>>, requests |-> 0, errors |-> <<>>])

-----------------------------------------------------------------------------
(* app.py:151-162: the proximity filter *)

\* geopy's geodesic(home, school).km on the kilometre grid.  A NaN coordinate
\* raises ValueError in geopy >= 2.0 and gives a NaN distance before that.
geodesic(home, lat, lon) ==
    IF lat = None \/ lon = None
    THEN IF geopy_strict THEN [raised |-> TRUE, km |-> None]
                         ELSE [raised |-> FALSE, km |-> None]
    ELSE [raised |-> FALSE,
          km |-> <<Abs(home[1] - lat[1]) + Abs(home[2] - lon[1])>>]

\* the lambda of df.apply: the estimate in minutes (None is NaN), or a raise
est_drive_time(row, home) ==
    IF row.Latitude # None
    THEN LET d == geodesic(home, row.Latitude, row.Longitude)
         IN  [raised |-> d.raised,
              minutes |-> IF d.km = None THEN None ELSE <<d.km[1] * PaceFactor>>]
    ELSE [raised |-> FALSE, minutes |-> <<NullSentinel>>]

\* MUTANT: a strict comparison
WithinStrict(est, max_minutes) == est # None /\ est[1] < max_minutes

\* df['est_drive_time'] <= max_minutes; a comparison with NaN is False
Within(est, max_minutes) == est # None /\ est[1] <= max_minutes

AllRows == [i \in 1..NumSchools |-> i]

\* The rows kept, or the exception of the first row whose estimate raises.
\* The curriculum and rating multiselects stay empty: lines 164-167 keep all.
Filter(home, drive_times) ==
    IF home # None /\ drive_times # <<>>
    THEN LET max_minutes == Max(Range(drive_times))
             Kept(est) ==
                 IF \E i \in 1..NumSchools : est[i].raised
                 THEN [status |-> "ValueError", rows |-> AllRows]
                 ELSE [status |-> "ok",
                       rows |-> SelectSeq(AllRows,
                                  LAMBDA i : Within(est[i].minutes, max_minutes))]
         IN  CHOOSE kept \in
                 {Kept(est) : est \in {[i \in 1..NumSchools |->
                                          est_drive_time(Row(i), home)]}} : TRUE
    ELSE [status |-> "ok", rows |-> AllRows]

-----------------------------------------------------------------------------
(* rag_engine.SchoolAgent *)

gemini_api_key ==
    LET s == IF secrets.readable THEN secrets.GEMINI_API_KEY ELSE ""
    IN  IF s = "" THEN environ.GEMINI_API_KEY ELSE s

\* __init__ assigns df and gemini_model; it never assigns model_type
SchoolAgent == [gemini_model |-> gemini_api_key # "", model_type |-> "unset"]

Sentinel == "No relevant schools found."
cols_to_send == <<"name", "curriculum", "overall_rating", "location">>

\* MUTANT: the whole filtered table is passed on
head_all(rows, n) == rows

\* DataFrame.head(n)
head(rows, n) == SubSeq(rows, 1, Min(n, Len(rows)))

\* context_df[available_cols].to_string(index=False): the header and one line
\* per row with the four columns; NoDf is context_df=None
NoDf == [passed |-> FALSE, rows |-> <<>>]
ContextText(context_df) ==
    IF context_df.passed /\ context_df.rows # <<>>
    THEN [text |-> "table", header |-> cols_to_send,
          lines |-> [k \in DOMAIN context_df.rows |->
                       LET r == Row(context_df.rows[k])
                       IN  <<r.name, r.curriculum, r.overall_rating, r.location>>]]
    ELSE [text |-> Sentinel, header |-> <<>>, lines |-> <<>>]

LlmOutcomes == [gemini : {"ok", "fail"}, ollama : {"ok", "fail"}]

\* ask(): the value returned or the exception, the model_type left behind and
\* the context put in system_prompt.  llm says how each provider answers if it
\* is called.
ask(a, context_df, llm) ==
    LET context_text == ContextText(context_df)
        result(status, reply, mt) ==
            [status |-> status, reply |-> reply, model_type |-> mt,
             context_text |-> context_text]
        ollama == IF llm.ollama = "ok"
                  THEN result("ok", "ollama answer", "ollama")
                  ELSE result("ok", "Error with AI providers", "ollama")
    IN  IF a.model_type = "unset"
        THEN result("AttributeError", "", a.model_type)
        ELSE IF a.model_type = "gemini"
        THEN IF a.gemini_model /\ llm.gemini = "ok"
             THEN result("ok", "gemini answer", "gemini")
             ELSE ollama
        ELSE IF a.model_type = "ollama"
        THEN ollama
        ELSE result("ok", "None", a.model_type)

-----------------------------------------------------------------------------
(* What the outside world can answer *)

PtA == [lat |-> 1, lng |-> 2]
PtB == [lat |-> 3, lng |-> 4]
PtC == [lat |-> 5, lng |-> 2]

TriangleShape == [shell |-> <<PtA, PtB, PtC, PtA>>, holes |-> <<>>]

Body(shapes) ==
    [keys |-> {"results"},
     results |-> << [keys |-> {"search_id", "shapes"}, shapes |-> shapes] >>]
Http(status, body) == [kind |-> "http", status_code |-> status, json |-> body]

ReplyException == [kind |-> "exception"]
ReplyGood == Http(StatusOk, Body(<<TriangleShape>>))

\* one reply of each kind the loop of fetch_isochrones tells apart
ReplyKinds ==
    { ReplyException,
      Http(StatusOk + 300, Body(<<TriangleShape>>)),
      Http(StatusOk, [keys |-> {}, results |-> <<>>]),
      Http(StatusOk, [keys |-> {"results"}, results |-> <<>>]),
      Http(StatusOk, [keys |-> {"results"},
                      results |-> << [keys |-> {"search_id"}, shapes |-> <<>>] >>]),
      Http(StatusOk, Body(<<>>)),
      ReplyGood }

\* point lists of every length up to MaxRingLen: empty, one point, open, closed
RECURSIVE SeqsUpTo(_, _)
SeqsUpTo(S, n) ==
    IF n = 0 THEN {<<>>}
    ELSE LET shorter == SeqsUpTo(S, n - 1)
         IN  shorter \cup {Append(q, x) : q \in {t \in shorter : Len(t) = n - 1}, x \in S}

Rings == SeqsUpTo({PtA, PtB}, MaxRingLen)
RingShapes ==
    {[shell |-> sh, holes |-> hs] : sh \in Rings, hs \in {<<>>} \cup {<<h>> : h \in Rings}}

-----------------------------------------------------------------------------
(* One run of app.py *)

TierOptions == <<15, 30, 45, 60>>
DefaultTiers == <<15, 30>>
Addresses == {"", "Marina"}
Prompts == {"best IB school?"}

\* the requests that went out, each with the service's reply
Asked(drive_times, rs, n) ==
    [k \in 1..n |-> [minutes |-> SortedDesc(drive_times)[k], reply |-> rs[k]]]

\* st.cache_data keys a call by the hash of its arguments
CacheKey(lat, lon, drive_times) == <<lat, lon, drive_times>>

NoFetch == [called |-> FALSE, hit |-> FALSE, repeat |-> FALSE, status |-> "ok",
            requests |-> 0, errors |-> <<>>]
NoChat == [asked |-> FALSE, status |-> "ok", reply |-> "",
           context_text |-> [text |-> "", header |-> <<>>, lines |-> <<>>],
           passed |-> <<>>]

\* The script from top to bottom with the widgets at (zone, address, tiers),
\* prompt = <<text>> when the run was triggered by the chat input.
\* geo, rs and llm are the outside world's answers if it is asked.
RunScript(zone, address, tiers, prompt, geo, rs, llm) ==
    \E hc \in {HomeCoords(zone, address, geo)} :
    LET active == hc.home # None /\ tiers # <<>>
        key == IF active THEN CacheKey(hc.home[1], hc.home[2], tiers) ELSE <<>>
        hits == {e \in cache : e.key = key}
        hit == active /\ hits # {}
        entry == CHOOSE e \in hits : TRUE
        repeat == active /\ \E e \in cache :
                      /\ e.key[1] = hc.home[1] /\ e.key[2] = hc.home[2]
                      /\ Range(e.key[3]) = Range(tiers)
    IN
    \E call \in {IF active /\ ~hit
                 THEN fetch_isochrones(hc.home[1], hc.home[2], tiers, rs)
                 ELSE [status |-> "ok", value |-> <<>>, requests |-> 0,
                       errors |-> <<>>]} :
    \E filt \in {IF call.status = "ok" THEN Filter(hc.home, tiers)
                 ELSE [status |-> "ok", rows |-> AllRows]} :
    LET f == IF ~active THEN NoFetch
             ELSE IF hit
             THEN [called |-> TRUE, hit |-> TRUE, repeat |-> repeat, status |-> "ok",
                   requests |-> 0, errors |-> entry.errors]
             ELSE [called |-> TRUE, hit |-> FALSE, repeat |-> repeat,
                   status |-> call.status, requests |-> call.requests,
                   errors |-> call.errors]
        reached_filter == call.status = "ok"
        reached_chat == reached_filter /\ filt.status = "ok" /\ prompt # None
        context_df == [passed |-> TRUE, rows |-> head(filt.rows, HeadLimit)]
    IN  /\ selected_zone_name' = zone
        /\ manual_address' = address
        /\ selected_drive_times' = tiers
        /\ location' = hc.location
        /\ home_coords' = hc.home
        /\ fetch' = f
        /\ replies' = Asked(tiers, rs, call.requests)
        /\ isochrone_polygons' = IF hit THEN entry.value ELSE call.value
        /\ cache' = IF active /\ ~hit /\ call.status = "ok"
                    THEN cache \cup {[key |-> key, value |-> call.value,
                                      errors |-> call.errors]}
                    ELSE cache
        /\ filtered_df' = filt.rows
        /\ zone_layer' = IF reached_filter /\ filt.status = "ok"
                         THEN ZoneLayer(zones_geom) ELSE NoLayer
        /\ IF reached_chat
           THEN \E answer \in {ask(agent, context_df, llm)} :
                /\ script' = answer.status
                /\ chat' = [asked |-> TRUE, status |-> answer.status,
                            reply |-> answer.reply,
                            context_text |-> answer.context_text,
                            passed |-> context_df.rows]
                /\ agent' = [agent EXCEPT !.model_type = answer.model_type]
                /\ messages' =
                     IF answer.status = "ok"
                     THEN messages \o << [role |-> "user", content |-> prompt[1]],
                                         [role |-> "assistant", content |-> answer.reply] >>
                     ELSE Append(messages, [role |-> "user", content |-> prompt[1]])
           ELSE /\ script' = IF ~reached_filter THEN call.status ELSE filt.status
                /\ chat' = NoChat
                /\ UNCHANGED <<agent, messages>>
        /\ reruns' = reruns + 1
        /\ UNCHANGED <<deployment, geom_calls>>

\* the routing service answers all tiers of one call alike: down, or up
SessionReplies == {ReplyException, ReplyGood}

\* whom this run asks: the geocoder only for an address without a zone, the
\* language model only for a chat prompt
Rerun(zone, address, tiers, prompt) ==
    /\ reruns < MaxReruns
    /\ \E geo \in IF zone = "None" /\ address # "" THEN GeocodeReplies ELSE {NotCalled} :
       \E r \in SessionReplies :
       \E llm \in IF prompt # None THEN LlmOutcomes
                  ELSE {[gemini |-> "ok", ollama |-> "ok"]} :
           RunScript(zone, address, tiers, prompt, geo,
                     [k \in 1..Len(tiers) |-> r], llm)

SelectZone ==
    \E z \in Range(zone_names) \ {selected_zone_name} :
        Rerun(z, manual_address, selected_drive_times, None)

EditAddress ==
    \E a \in Addresses \ {manual_address} :
        Rerun(selected_zone_name, a, selected_drive_times, None)

AddTier ==
    \E t \in Range(TierOptions) \ Range(selected_drive_times) :
        Rerun(selected_zone_name, manual_address, Append(selected_drive_times, t), None)

RemoveTier ==
    \E k \in DOMAIN selected_drive_times :
        Rerun(selected_zone_name, manual_address, RemoveAt(selected_drive_times, k), None)

SubmitChat ==
    /\ reruns < MaxReruns
    /\ \E p \in Prompts :
           Rerun(selected_zone_name, manual_address, selected_drive_times, <<p>>)

CredValues == {"", "key"}
SecretStores ==
    [readable : BOOLEAN, TRAVELTIME_APP_ID : CredValues,
     TRAVELTIME_API_KEY : CredValues, GEMINI_API_KEY : CredValues]
Environs ==
    [TRAVELTIME_APP_ID : CredValues, TRAVELTIME_API_KEY : CredValues,
     GEMINI_API_KEY : CredValues]

NoSecretsFile == [readable |-> FALSE, TRAVELTIME_APP_ID |-> "",
                  TRAVELTIME_API_KEY |-> "", GEMINI_API_KEY |-> ""]
AllKeys == [TRAVELTIME_APP_ID |-> "key", TRAVELTIME_API_KEY |-> "key",
            GEMINI_API_KEY |-> "key"]
NoKeys == [TRAVELTIME_APP_ID |-> "", TRAVELTIME_API_KEY |-> "",
           GEMINI_API_KEY |-> ""]

\* the first run of the script: widgets at their defaults, nothing cached
NoGeomCalls == [called |-> FALSE, results |-> <<>>]

FirstRun ==
    /\ selected_zone_name = "None"
    /\ manual_address = ""
    /\ selected_drive_times = DefaultTiers
    /\ cache = {}
    /\ agent = SchoolAgent
    /\ messages = <<>>
    /\ reruns = 0
    /\ location = NotCalled
    /\ home_coords = None
    /\ fetch = NoFetch
    /\ replies = <<>>
    /\ isochrone_polygons = <<>>
    /\ filtered_df = AllRows
    /\ chat = NoChat
    /\ script = "ok"
    /\ zone_layer = ZoneLayer(zones_geom)
    /\ geom_calls = NoGeomCalls

\* the deployments a session is explored in
Deployments ==
    { [environ |-> AllKeys, geopy_strict |-> TRUE,  master_xlsx |-> "nulls"],
      [environ |-> AllKeys, geopy_strict |-> FALSE, master_xlsx |-> "nulls"],
      [environ |-> AllKeys, geopy_strict |-> TRUE,  master_xlsx |-> "clean"],
      [environ |-> NoKeys,  geopy_strict |-> TRUE,  master_xlsx |-> "clean"] }

Init ==
    /\ secrets = NoSecretsFile
    /\ \E d \in Deployments :
           /\ environ = d.environ
           /\ geopy_strict = d.geopy_strict
           /\ master_xlsx = d.master_xlsx
    /\ shapely_v2 = TRUE
    /\ zones_geom = DfZonesGeom
    /\ FirstRun

Next == SelectZone \/ EditAddress \/ AddTier \/ RemoveTier \/ SubmitChat

Spec == Init /\ [][Next]_vars

-----------------------------------------------------------------------------
(* fetch_isochrones on its own: any credentials, any tiers, any replies *)

RECURSIVE Perms(_)
Perms(S) ==
    IF S = {} THEN {<<>>}
    ELSE UNION {{<<x>> \o q : q \in Perms(S \ {x})} : x \in S}

Ascending(S) == LET d == SortedDesc(CHOOSE q \in Perms(S) : TRUE)
                IN  [k \in DOMAIN d |-> d[Len(d) + 1 - k]]

TierSets == SUBSET Range(TierOptions) \ {{}}

\* every selection with every mix of reply kinds; every order of selection;
\* every shape of ring, in the first request and in a later one
FetchInputs ==
    UNION {
        {[drive_times |-> Ascending(S), rs |-> rs] :
            rs \in [1..Cardinality(S) -> ReplyKinds]} : S \in TierSets }
    \cup UNION {
        {[drive_times |-> q, rs |-> [k \in DOMAIN q |-> ReplyGood]] :
            q \in Perms(S)} : S \in TierSets }
    \cup {[drive_times |-> <<15, 45>>,
           rs |-> << Http(StatusOk, Body(<<TriangleShape, sh>>)), ReplyGood >>] :
            sh \in RingShapes}
    \cup {[drive_times |-> <<15, 45>>,
           rs |-> << ReplyGood, Http(StatusOk, Body(<<sh>>)) >>] :
            sh \in RingShapes}

\* one call in a fresh process: nothing is cached yet
FetchCall ==
    /\ ~fetch.called
    /\ \E inp \in FetchInputs :
         \E call \in {fetch_isochrones(home_coords[1], home_coords[2],
                                       inp.drive_times, inp.rs)} :
           /\ selected_drive_times' = inp.drive_times
           /\ fetch' = [called |-> TRUE, hit |-> FALSE, repeat |-> FALSE,
                        status |-> call.status, requests |-> call.requests,
                        errors |-> call.errors]
           /\ replies' = Asked(inp.drive_times, inp.rs, call.requests)
           /\ isochrone_polygons' = call.value
           /\ script' = call.status
           /\ UNCHANGED <<deployment, selected_zone_name, manual_address, cache,
                          agent, messages, reruns, location, home_coords,
                          filtered_df, chat, zone_layer, geom_calls>>

InitFetch ==
    /\ secrets \in {s \in SecretStores : s.GEMINI_API_KEY = ""}
    /\ environ \in {e \in Environs : e.GEMINI_API_KEY = ""}
    /\ geopy_strict = FALSE
    /\ master_xlsx = "clean"
    /\ shapely_v2 = TRUE
    /\ zones_geom = DfZonesGeom
    /\ zone_layer = ZoneLayer(zones_geom)
    /\ geom_calls = NoGeomCalls
    /\ selected_zone_name = "Z1"
    /\ manual_address = ""
    /\ selected_drive_times = DefaultTiers
    /\ cache = {}
    /\ agent = SchoolAgent
    /\ messages = <<>>
    /\ reruns = 0
    /\ location = NotCalled
    /\ home_coords = HomeCoords("Z1", "", NotCalled).home
    /\ fetch = NoFetch
    /\ replies = <<>>
    /\ isochrone_polygons = <<>>
    /\ filtered_df = AllRows
    /\ chat = NoChat
    /\ script = "ok"

NextFetch == FetchCall

SpecFetch == InitFetch /\ [][NextFetch]_vars

-----------------------------------------------------------------------------
(* parse_geom, get_centroid and the zone layer on every zone spreadsheet *)

MaxZones == 3           \* rows of the zone spreadsheet

\* a NaN cell of the geom column
MissingWkt == [kind |-> "missing", exterior |-> <<>>]
\* "POLYGON EMPTY"
EmptyPolygon == [kind |-> "Polygon", exterior |-> <<>>]
\* "POINT (x y)"
PointWkt == [kind |-> "Point", exterior |-> << <<Meridian, BaseLat>> >>]
\* "POLYGON Z ((x y z, ...))"
PolygonZ ==
    [kind |-> "Polygon",
     exterior |-> << <<Meridian, BaseLat, 0>>, <<Meridian + 4, BaseLat, 0>>,
                     <<Meridian + 4, BaseLat + 4, 0>>, <<Meridian, BaseLat + 4, 0>>,
                     <<Meridian, BaseLat, 0>> >>]

WktInputs == {MissingWkt, GarbageWkt, EmptyPolygon, PointWkt, ZonePolygon, PolygonZ}

\* both functions applied to every row, and the zone layer of the map
GeomCall ==
    /\ ~geom_calls.called
    /\ geom_calls' = [called |-> TRUE,
                      results |-> [i \in DOMAIN zones_geom |->
                                     [parse |-> parse_geom(zones_geom[i]),
                                      centroid |-> get_centroid_call(zones_geom[i])]]]
    /\ zone_layer' = ZoneLayer(zones_geom)
    /\ UNCHANGED <<deployment, selected_zone_name, manual_address,
                   selected_drive_times, cache, agent, messages, reruns,
                   location, home_coords, fetch, replies, isochrone_polygons,
                   filtered_df, chat, script>>

InitGeom ==
    /\ secrets = NoSecretsFile
    /\ environ = NoKeys
    /\ geopy_strict = FALSE
    /\ master_xlsx = "clean"
    /\ shapely_v2 \in BOOLEAN
    /\ zones_geom \in SeqsUpTo(WktInputs, MaxZones)
    /\ zone_layer = NoLayer
    /\ geom_calls = NoGeomCalls
    /\ selected_zone_name = "None"
    /\ manual_address = ""
    /\ selected_drive_times = DefaultTiers
    /\ cache = {}
    /\ agent = SchoolAgent
    /\ messages = <<>>
    /\ reruns = 0
    /\ location = NotCalled
    /\ home_coords = None
    /\ fetch = NoFetch
    /\ replies = <<>>
    /\ isochrone_polygons = <<>>
    /\ filtered_df = AllRows
    /\ chat = NoChat
    /\ script = "ok"

NextGeom == GeomCall

SpecGeom == InitGeom /\ [][NextGeom]_vars

-----------------------------------------------------------------------------
(* The claims *)

ProximityActive == home_coords # None /\ selected_drive_times # <<>>

\* C1: a fetch_isochrones call whose latitude, longitude and set of tiers equal
\* those of an earlier call of the session sends no request to the routing
\* service, whatever the order the tiers were picked in.
C1_RepeatedCallSendsNothing == fetch.repeat => fetch.requests = 0

\* C2: with the proximity filter active the run does not raise, and no row
\* without Latitude or without Longitude is in the filtered result.
C2_NullCoordinatesExcluded ==
    ProximityActive =>
        /\ script # "ValueError"
        /\ \A k \in DOMAIN filtered_df :
               /\ Row(filtered_df[k]).Latitude # None
               /\ Row(filtered_df[k]).Longitude # None

\* C3: every ring (shell or hole) of every Feature fetch_isochrones returns has
\* a first point, and it equals its last point.
C3_RingsClosed ==
    \A f \in DOMAIN isochrone_polygons :
        LET polys == isochrone_polygons[f].geometry.coordinates
        IN  \A p \in DOMAIN polys : \A r \in DOMAIN polys[p] :
                /\ polys[p][r] # <<>>
                /\ polys[p][r][1] = polys[p][r][Len(polys[p][r])]

ShapesOf(reply) ==
    IF reply.kind = "http" /\ "results" \in reply.json.keys
          /\ reply.json.results # <<>>
    THEN reply.json.results[1].shapes ELSE <<>>

\* a call that returned Features built from an open shell and a one-point hole
C3_Witness ==
    /\ fetch.called /\ fetch.status = "ok" /\ isochrone_polygons # <<>>
    /\ \E k \in DOMAIN replies :
         \E n \in DOMAIN ShapesOf(replies[k].reply) :
            LET shape == ShapesOf(replies[k].reply)[n]
            IN  /\ Len(shape.shell) >= 2
                /\ shape.shell[1] # shape.shell[Len(shape.shell)]
                /\ shape.holes # <<>>
                /\ Len(shape.holes[1]) = 1

\* C4: the home coordinate comes from the selected zone's centroid whenever a
\* zone is selected (the geocoder is not asked, address or not), from the
\* geocoder's reply exactly when no zone is selected and the address is not
\* empty, and is absent otherwise: a function of the current inputs alone.
C4_HomeSource ==
    /\ selected_zone_name # "None" =>
         /\ location = NotCalled
         /\ \E z \in Range(df_zones) :
              /\ z.Community = selected_zone_name
              /\ home_coords = IF get_centroid(z.geom) = None THEN None
                               ELSE <<get_centroid(z.geom)[2], get_centroid(z.geom)[1]>>
    /\ selected_zone_name = "Z1" => home_coords = <<BaseLat, Meridian>>
    /\ (selected_zone_name = "None" /\ manual_address # "") =>
         /\ location \in GeocodeReplies
         /\ home_coords = IF location.kind = "location"
                          THEN <<location.latitude, location.longitude>> ELSE None
    /\ (selected_zone_name = "None" /\ manual_address = "") =>
         /\ location = NotCalled
         /\ home_coords = None

\* a zone selected after an address was typed: the zone's centroid is home
C4_Witness ==
    /\ selected_zone_name = "Z1" /\ manual_address # ""
    /\ reruns >= 2
    /\ home_coords = <<BaseLat, Meridian>>

\* C5: ask never raises: every call returns a text, and that text is appended
\* to the chat as the assistant's message.
C5_AskNeverRaises ==
    chat.asked =>
        /\ chat.status = "ok"
        /\ messages # <<>>
        /\ messages[Len(messages)] = [role |-> "assistant", content |-> chat.reply]

GoodReply(reply) ==
    /\ reply.kind = "http"
    /\ reply.status_code = 200
    /\ "results" \in reply.json.keys
    /\ Len(reply.json.results) >= 1
    /\ "shapes" \in reply.json.results[1].keys
    /\ Len(reply.json.results[1].shapes) >= 1

HasEmptyRing(reply) ==
    \E n \in DOMAIN ShapesOf(reply) :
        \/ ShapesOf(reply)[n].shell = <<>>
        \/ \E h \in DOMAIN ShapesOf(reply)[n].holes : ShapesOf(reply)[n].holes[h] = <<>>

RoutingKeysAbsent ==
    \/ (~secrets.readable \/ secrets.TRAVELTIME_APP_ID = "")
         /\ environ.TRAVELTIME_APP_ID = ""
    \/ (~secrets.readable \/ secrets.TRAVELTIME_API_KEY = "")
         /\ environ.TRAVELTIME_API_KEY = ""

\* C6: a call that returns holds exactly one Feature for each requested tier
\* whose reply was a success with at least one shape, tagged with that tier,
\* and none for any other tier; with the keys configured every tier is
\* requested, whatever the earlier tiers' replies were, and the call gives up
\* only on a reply that holds an empty point list.
C6_OneFeaturePerGoodTier ==
    fetch.called =>
        /\ fetch.status = "ok" =>
             LET good == {k \in DOMAIN replies : GoodReply(replies[k].reply)}
             IN  /\ Len(isochrone_polygons) = Cardinality(good)
                 /\ {isochrone_polygons[f].properties.drive_time :
                        f \in DOMAIN isochrone_polygons}
                      = {replies[k].minutes : k \in good}
                 /\ Cardinality({replies[k].minutes : k \in good}) = Cardinality(good)
                 /\ ~RoutingKeysAbsent =>
                        {replies[k].minutes : k \in DOMAIN replies}
                            = Range(selected_drive_times)
        /\ fetch.status # "ok" =>
             /\ replies # <<>>
             /\ HasEmptyRing(replies[Len(replies)].reply)

\* a tier that failed, then one that succeeded, in one returned call
C6_Witness ==
    /\ fetch.called /\ fetch.status = "ok"
    /\ \E i, j \in DOMAIN replies :
          /\ i < j
          /\ ~GoodReply(replies[i].reply)
          /\ replies[i].reply.kind = "http"
          /\ GoodReply(replies[j].reply)
    /\ \E f \in DOMAIN isochrone_polygons :
          isochrone_polygons[f].properties.drive_time = replies[Len(replies)].minutes

\* C7: with the app id or the API key absent from the secret store and from
\* the environment, a fetch sends no request, shows the configuration warning
\* and returns no polygon.
C7_NoKeysNoRequest ==
    (fetch.called /\ RoutingKeysAbsent) =>
        /\ fetch.requests = 0
        /\ replies = <<>>
        /\ isochrone_polygons = <<>>
        /\ fetch.status = "ok"
        /\ \E e \in DOMAIN fetch.errors : fetch.errors[e].kind = "not configured"

\* a fetch of all four tiers with only one of the two keys configured
C7_Witness ==
    /\ fetch.called /\ RoutingKeysAbsent
    /\ Len(selected_drive_times) = Len(TierOptions)
    /\ environ.TRAVELTIME_APP_ID # "" /\ environ.TRAVELTIME_API_KEY = ""
    /\ secrets.readable /\ secrets.TRAVELTIME_API_KEY = ""

\* C8: a Feature's colour is palette[i mod 3], i the number of requested tiers
\* larger than its own (its place in descending order, failed tiers counted):
\* the largest requested tier gets colour 0 whatever its value.
C8_ColourByRequestOrder ==
    \A f \in DOMAIN isochrone_polygons :
        LET pr == isochrone_polygons[f].properties
            i == Cardinality({t \in Range(selected_drive_times) : t > pr.drive_time})
            palette == << <<0, 255, 128>>, <<255, 255, 0>>, <<255, 128, 0>> >>
        IN  <<pr.fill_color_r, pr.fill_color_g, pr.fill_color_b>> = palette[(i % 3) + 1]

\* four tiers, the first and the last yield a Feature, the two between fail:
\* the last one is the second Feature built and has colour 0 again
C8_Witness ==
    /\ fetch.called /\ fetch.status = "ok"
    /\ Len(selected_drive_times) = 4
    /\ Len(isochrone_polygons) = 2
    /\ isochrone_polygons[1].properties.drive_time = 60
    /\ isochrone_polygons[2].properties.drive_time = 15
    /\ isochrone_polygons[2].properties.fill_color_g = 255
    /\ isochrone_polygons[2].properties.fill_color_b = 128

GridKm(i) ==
    Abs(home_coords[1] - Row(i).Latitude[1]) + Abs(home_coords[2] - Row(i).Longitude[1])

FilterCompleted == script \notin {"ValueError", "IndexError"}

\* C9: with the proximity filter active, a school with both coordinates is kept
\* if and only if twice its distance in km is at most the largest selected
\* tier; 10 km away is kept for a maximum of 20 and dropped for 19.
C9_KeptIffWithinMax ==
    /\ (ProximityActive /\ FilterCompleted) =>
         \A i \in 1..NumSchools :
            (Row(i).Latitude # None /\ Row(i).Longitude # None) =>
                (i \in Range(filtered_df)
                    <=> 2 * GridKm(i) <= Max(Range(selected_drive_times)))
    /\ LET home == <<BaseLat, Meridian>>
           school == [Latitude |-> <<BaseLat + 10>>, Longitude |-> <<Meridian>>]
           est == est_drive_time(school, home)
       IN  /\ ~est.raised /\ est.minutes = <<20>>
           /\ Within(est.minutes, 20)
           /\ ~Within(est.minutes, 19)

\* a school whose estimate equals the largest tier is kept, a farther one is not
C9_Witness ==
    /\ ProximityActive /\ FilterCompleted
    /\ \E i, j \in 1..NumSchools :
          /\ Row(i).Latitude # None /\ Row(i).Longitude # None
          /\ Row(j).Latitude # None /\ Row(j).Longitude # None
          /\ 2 * GridKm(i) = Max(Range(selected_drive_times))
          /\ i \in Range(filtered_df)
          /\ j \notin Range(filtered_df)

\* C10: the context text in the prompt is the sentinel when the filtered
\* dataset is empty or none is passed, and otherwise has one line for each of
\* the first 20 rows of the filtered dataset at most, in their order.
C10_ContextSentinelOrFirst20 ==
    /\ ContextText(NoDf).text = "No relevant schools found."
    /\ chat.asked =>
         LET ctx == chat.context_text
         IN  /\ filtered_df = <<>> =>
                  ctx.text = "No relevant schools found." /\ ctx.lines = <<>>
             /\ filtered_df # <<>> =>
                  /\ ctx.text # "No relevant schools found."
                  /\ Len(ctx.lines) <= 20
                  /\ Len(ctx.lines) = Min(20, Len(filtered_df))
                  /\ \A k \in DOMAIN ctx.lines :
                        ctx.lines[k][1] = Row(filtered_df[k]).name

\* a question asked with more than 20 schools in the filtered dataset
C10_Witness ==
    /\ chat.asked
    /\ Len(filtered_df) > 20
    /\ Len(chat.context_text.lines) = 20

\* a question asked with no school left by the filter
C10_WitnessEmpty ==
    chat.asked /\ filtered_df = <<>> /\ ProximityActive

\* text that shapely cannot parse, or no text at all
FailsToParse(wkt) == wkt.kind \in {"missing", "unparseable"}

InZoneLayer(i) == \E k \in DOMAIN zone_layer.rows : zone_layer.rows[k].zone = i

\* C11: on every input (missing, unparseable, not a polygon, empty) parse_geom
\* and get_centroid do not raise; both return None on an input that fails to
\* parse; and a zone is left out of the map's zone layer exactly when its
\* parse_geom result is None.
C11_GeomNeverRaisesNullDropped ==
    geom_calls.called =>
        /\ zone_layer.status # "raised"
        /\ \A i \in DOMAIN zones_geom :
              LET r == geom_calls.results[i]
              IN  /\ ~r.parse.raised
                  /\ ~r.centroid.raised
                  /\ FailsToParse(zones_geom[i]) =>
                        r.parse.value = None /\ r.centroid.value = None
                  /\ (r.parse.value = None) => ~InZoneLayer(i)
                  /\ (r.parse.value # None) => InZoneLayer(i)

\* a sheet with a row that fails to parse, a point, an empty polygon or a
\* polygon, whose layer keeps some rows and drops others
C11_Witness ==
    /\ geom_calls.called
    /\ \E i \in DOMAIN zones_geom : FailsToParse(zones_geom[i])
    /\ \E i \in DOMAIN zones_geom : zones_geom[i].kind = "Point"
    /\ \E i \in DOMAIN zones_geom : zones_geom[i].kind = "Polygon"
    /\ zone_layer.rows # <<>>
    /\ Len(zone_layer.rows) < Len(zones_geom)

\* C12: the stored transcript alternates user, assistant, ... from a user
\* message and has even length.
C12_TranscriptAlternates ==
    /\ Len(messages) % 2 = 0
    /\ \A k \in DOMAIN messages :
          messages[k].role = IF k % 2 = 1 THEN "user" ELSE "assistant"

====
